---- MODULE Spec2Model ----
(***************************************************************************)
(* State-machine model of the asynchronous task executor of                *)
(* src/misc/Executor.c: jobs, the job list, the executor, the worker       *)
(* threads (executor_run / job_run) and the callers' operations            *)
(* (executor_submit, executor_size, executor_shutdown, future_cancel).     *)
(*                                                                         *)
(* Granularity.  A section of code that runs between job_lock and          *)
(* job_unlock never blocks, so it is one step.  The executor mutex is held *)
(* across steps only by executor_shutdown(true) while jobList_cancelAll    *)
(* scans the list (variable scanPc); every other section under that mutex  *)
(* is one step that is enabled only while the mutex is free.               *)
(***************************************************************************)
EXTENDS Integers, FiniteSets, Sequences, TLC

\* ------------------------------------------------------------- bounds
\* Number of jobs the model lets executor_submit accept.
MaxJobs == 2
\* Number of direct future_cancel calls the model follows per job.
MaxCancels == 1
\* Jobs of a job list taken on its own.
MaxListJobs == 4

\* ---------------------------------------------------------- constants
NULL == 0
EPERM == 1
EAGAIN == 11
ESRCH == 3
EIO == 5
EINVAL == 22

Jobs == 1..MaxJobs
\* One more slot than accepted jobs: a submission that is rejected still
\* allocates a job and frees it again.
Slots == 1..(MaxJobs + 1)

JOB_INITIALIZED == "INITIALIZED"
JOB_EXECUTING == "EXECUTING"
JOB_COMPLETED == "COMPLETED"
JobState == {JOB_INITIALIZED, JOB_EXECUTING, JOB_COMPLETED}

\* What a run function may return: <<status, result>>.
RunOutcomes == {<<0, 1>>, <<EIO, NULL>>}
\* What a caller-supplied halt function may return.
HaltStatuses == {0, EIO}
\* What pthread_kill(thread, SIGTERM) may return for a thread that exists.
KillErrors == {0, EINVAL}
HaltFuncs == {"default", "custom"}

\* The payload a caller passes for the job in slot j, and the identity of the
\* thread pthread_create() makes for it.
Payload(j) == 10 + j
Tid(j) == 100 + j

VARIABLES
    isShutdown,       \* executor->isShutdown
    afterCompletion,  \* executor->afterCompletion is set
    jobList,          \* [head, tail, size]: executor->jobList
    prev, next,       \* job->prev, job->next
    state,            \* job->state
    canceled,         \* job->canceled
    thread,           \* job->thread (NULL: not yet assigned)
    haltFn,           \* job->halt
    blocks,           \* the job's run function blocks until it is halted
    interrupted,      \* the blocking run function of the job was halted
    nextJob,          \* next free slot
    pc,               \* position of each job's worker thread
    wStatus, wResult, \* job_run()'s locals status and result
    future,           \* the job's Future: [set, status, result, wasCanceled]
    cancelReqs,       \* number of direct future_cancel() calls per job
    halting,          \* callers of job_cancel() between job_unlock and halt
    haltCalls,        \* number of calls of the job's halt function
    haltArgs,         \* the <<obj, thread>> arguments halt was called with
    kills,            \* what pthread_kill() returned for the job's thread
    runCalls,         \* number of calls of the job's run function
    handlerCalls,     \* number of calls of the completion handler per job
    jobFrees,         \* number of job_free() calls per job
    scanPc,           \* executor_shutdown(true): "idle", "cancel", "halt"
    scanJob,          \* jobList_cancelAll()'s job
    scanNext,         \* jobList_cancelAll()'s next
    scanStatus,       \* jobList_cancelAll()'s status
    scanned,          \* jobs in the list when executor_shutdown(true) began
    scanCancels,      \* cancellations jobList_cancelAll() requested per job
    firstNow,         \* the flag of the first executor_shutdown: "none","no","yes"
    earlyCancel,      \* job_cancel() locked the job before the worker's check
    ret,              \* the call that returned last: [op, status]
    ub,               \* a freed job was locked, read or written
    submitFrees,      \* job_free()/future_free() calls of the call that returned last
    canceledReads,    \* the worker's reads of job->canceled: [locked, unlocked]
    broadcasts,       \* pthread_cond_broadcast() calls on job->cond
    killError,        \* what pthread_kill() returns for a thread that exists
    listCalls,        \* calls made on a job list taken on its own: [added, removed]
    destroyed,        \* executor_free() was called
    asserted          \* an assertion of job_free() was found false

jobVars == <<state, canceled, thread, haltFn, blocks, interrupted>>
listVars == <<jobList, prev, next>>
workerVars == <<pc, wStatus, wResult, future, runCalls, handlerCalls, jobFrees,
                canceledReads>>
haltVars == <<cancelReqs, halting, haltCalls, haltArgs, kills>>
scanVars == <<scanPc, scanJob, scanNext, scanStatus, scanned, scanCancels>>
\* What no operation of the executor changes.
envVars == <<broadcasts, killError, listCalls>>
\* What ends the life of the executor or of the process.
endVars == <<destroyed, asserted>>
vars == <<isShutdown, afterCompletion, jobVars, listVars, workerVars, haltVars,
          scanVars, nextJob, firstNow, earlyCancel, ret, ub, submitFrees, envVars, endVars>>

\* executor_shutdown() unlocking the executor before jobList_cancelAll().
mutexFree_Always == TRUE

\* The executor mutex is held across steps only by the scan.
mutexFree == scanPc = "idle"

\* The operation that returned and the status it returned (for
\* executor_submit(), the status that decides the Future it returns).
Return(op, st) == [op |-> op, status |-> st]

\* Using a freed job is undefined behaviour: whatever the process does from
\* there on, the model does not follow it; nor does it follow the process once
\* the executor is freed.
Alive == ~ub /\ ~destroyed

\* A call that frees neither a job nor a Future.
NoFrees == [job |-> 0, future |-> 0]

NoFuture == [set |-> 0, status |-> 0, result |-> NULL, wasCanceled |-> FALSE]

\* executor_new() has returned; no job was submitted.
Constructed ==
    /\ isShutdown = FALSE
    /\ afterCompletion = FALSE
    /\ jobList = [head |-> NULL, tail |-> NULL, size |-> 0]
    /\ prev = [j \in Slots |-> NULL]
    /\ next = [j \in Slots |-> NULL]
    /\ state = [j \in Slots |-> JOB_INITIALIZED]
    /\ canceled = [j \in Slots |-> FALSE]
    /\ thread = [j \in Slots |-> NULL]
    /\ haltFn = [j \in Slots |-> "default"]
    /\ blocks = [j \in Slots |-> FALSE]
    /\ interrupted = [j \in Slots |-> FALSE]
    /\ nextJob = 1
    /\ pc = [j \in Slots |-> "unborn"]
    /\ wStatus = [j \in Slots |-> 0]
    /\ wResult = [j \in Slots |-> NULL]
    /\ future = [j \in Slots |-> NoFuture]
    /\ cancelReqs = [j \in Slots |-> 0]
    /\ halting = [j \in Slots |-> 0]
    /\ haltCalls = [j \in Slots |-> 0]
    /\ haltArgs = [j \in Slots |-> {}]
    /\ kills = [j \in Slots |-> {}]
    /\ runCalls = [j \in Slots |-> 0]
    /\ handlerCalls = [j \in Slots |-> 0]
    /\ jobFrees = [j \in Slots |-> 0]
    /\ scanPc = "idle"
    /\ scanJob = NULL
    /\ scanNext = NULL
    /\ scanStatus = 0
    /\ scanned = {}
    /\ scanCancels = [j \in Slots |-> 0]
    /\ firstNow = "none"
    /\ earlyCancel = [j \in Slots |-> FALSE]
    /\ ret = Return("none", 0)
    /\ ub = FALSE
    /\ submitFrees = NoFrees
    /\ canceledReads = [j \in Slots |-> [locked |-> 0, unlocked |-> 0]]
    /\ broadcasts = [j \in Slots |-> 0]
    /\ listCalls = [added |-> <<>>, removed |-> {}]
    /\ destroyed = FALSE
    /\ asserted = FALSE

\* pthread_kill(thread, SIGTERM) succeeds for every thread that exists.
Init == Constructed /\ killError = 0

\* The same, in a process where pthread_kill() may fail for such a thread.
InitKill == Constructed /\ killError \in KillErrors

\* ------------------------------------------------------------ job list

\* jobList_add(): appends the job at the tail.
jobList_add(jl, pv, nx, job) ==
    [jobList |-> [head |-> IF jl.head = NULL THEN job ELSE jl.head,
                  tail |-> job,
                  size |-> jl.size + 1],
     prev |-> [pv EXCEPT ![job] = jl.tail],
     next |-> IF jl.tail # NULL THEN [nx EXCEPT ![jl.tail] = job] ELSE nx]

\* jobList_remove() without jobList->size--.
jobList_remove_NoCount(jl, pv, nx, job) ==
    LET p == pv[job]
        n == nx[job]
    IN  [jobList |-> [head |-> IF p # NULL THEN jl.head ELSE n,
                      tail |-> IF n # NULL THEN jl.tail ELSE p,
                      size |-> jl.size],
         prev |-> IF n # NULL THEN [pv EXCEPT ![n] = p] ELSE pv,
         next |-> IF p # NULL THEN [nx EXCEPT ![p] = n] ELSE nx]

\* jobList_remove(): unlinks the job through its stored prev and next.
jobList_remove(jl, pv, nx, job) ==
    LET p == pv[job]
        n == nx[job]
    IN  [jobList |-> [head |-> IF p # NULL THEN jl.head ELSE n,
                      tail |-> IF n # NULL THEN jl.tail ELSE p,
                      size |-> jl.size - 1],
         prev |-> IF n # NULL THEN [pv EXCEPT ![n] = p] ELSE pv,
         next |-> IF p # NULL THEN [nx EXCEPT ![p] = n] ELSE nx]

\* jobList_size()
jobList_size(jl) == jl.size

\* The jobs reached from job `from` through next, in order.
RECURSIVE Chain(_, _, _)
Chain(nx, from, fuel) ==
    IF from = NULL \/ fuel = 0 THEN <<>>
    ELSE <<from>> \o Chain(nx, nx[from], fuel - 1)

\* The members of the executor's job list, head first.
Members == Chain(next, jobList.head, MaxJobs + 2)
InList(j) == \E i \in 1..Len(Members) : Members[i] = j

\* ---------------------------------------------------------------- job

\* job_new(): the fields of a new job (its thread is not assigned).
job_new(j, hf, bl) ==
    /\ haltFn' = [haltFn EXCEPT ![j] = hf]
    /\ blocks' = [blocks EXCEPT ![j] = bl]
    /\ canceled' = [canceled EXCEPT ![j] = FALSE]
    /\ state' = [state EXCEPT ![j] = JOB_INITIALIZED]

\* job_free()'s assertion on the state of the job it is to free.
job_free_assertion(st) == st # JOB_EXECUTING

\* A job that job_free() has released.
Freed(j) == jobFrees[j] > 0
\* A job that executor_submit() accepted: its Future went to the caller.
Accepted(j) == j \in Jobs /\ j < nextJob

\* Calls of the halt function of job j that are under way: job_cancel() has
\* released the job lock and not yet called halt.
PendingHalts(j) ==
    halting[j] + (IF scanPc = "halt" /\ scanJob = j THEN 1 ELSE 0)

\* job_cancel() calling the halt function before job_unlock().
HaltUnlocked_Never == FALSE

\* job_cancel() calls job_unlock() before it calls the halt function.
HaltUnlocked == TRUE

\* The mutex of job j is held from one step to the next: by no thread, unless
\* a thread went to the halt function with the job locked.
JobLocked(j) == ~HaltUnlocked /\ PendingHalts(j) > 0

\* job_setState(): sets the state and broadcasts on the job's condition
\* variable. Nothing calls it: job_run() assigns job->state itself.
job_setState(j, st) ==
    /\ state' = [state EXCEPT ![j] = st]
    /\ broadcasts' = [broadcasts EXCEPT ![j] = @ + 1]

\* job_cancel() inverting canceled instead of setting it.
job_cancel_locked_Toggle(st, c) ==
    IF st = JOB_COMPLETED
    THEN [canceled |-> c, halt |-> FALSE, status |-> 0]
    ELSE [canceled |-> ~c, halt |-> (st # JOB_INITIALIZED), status |-> 0]

\* job_cancel() not setting canceled on a job that is still INITIALIZED.
job_cancel_locked_NoEarlyFlag(st, c) ==
    IF st = JOB_COMPLETED
    THEN [canceled |-> c, halt |-> FALSE, status |-> 0]
    ELSE [canceled |-> (c \/ st # JOB_INITIALIZED),
          halt |-> (st # JOB_INITIALIZED), status |-> 0]

\* job_cancel() without the test for JOB_COMPLETED.
job_cancel_locked_NoCompletedTest(st, c) ==
    [canceled |-> TRUE, halt |-> (st = JOB_EXECUTING), status |-> 0]

\* The section of job_cancel() that runs under the job lock: the new value of
\* canceled, whether the halt function is to be called after job_unlock and,
\* if it is not, the status job_cancel() returns.
job_cancel_locked(st, c) ==
    IF st = JOB_COMPLETED
    THEN [canceled |-> c, halt |-> FALSE, status |-> 0]
    ELSE [canceled |-> TRUE, halt |-> (st # JOB_INITIALIZED), status |-> 0]

\* job_defaultHaltFunc() returning pthread_kill()'s status as it is.
job_defaultHaltFunc_NoEsrchTest(killStatus) == killStatus

\* job_defaultHaltFunc(): pthread_kill()'s status, ESRCH mapped to 0.
job_defaultHaltFunc(killStatus) ==
    IF killStatus = ESRCH THEN 0 ELSE killStatus

\* What pthread_kill() returns for the thread of job j: ESRCH once the thread
\* has ended (it ends when it has freed its job).
KillReturns(j) == IF pc[j] = "done" THEN ESRCH ELSE killError

\* What a call of the halt function of job j can do: the status pthread_kill()
\* returned, if the function is the default one, and the status the function
\* returns.
HaltOutcomes(j) ==
    IF haltFn[j] = "default"
    THEN {[kill |-> {KillReturns(j)},
           status |-> job_defaultHaltFunc(KillReturns(j))]}
    ELSE {[kill |-> {}, status |-> st] : st \in HaltStatuses}

\* job_cancel() passing no thread to the halt function.
CallHalt_NoThread(j, st) ==
    /\ haltCalls' = [haltCalls EXCEPT ![j] = @ + 1]
    /\ haltArgs' = [haltArgs EXCEPT ![j] = @ \cup {<<Payload(j), NULL>>}]
    /\ interrupted' = [interrupted EXCEPT
                         ![j] = @ \/ (st = 0 /\ pc[j] = "run" /\ blocks[j])]

\* job->halt(job->obj, job->thread) returning st: a halt that succeeds
\* interrupts the run function if it is active.
CallHalt(j, st) ==
    /\ haltCalls' = [haltCalls EXCEPT ![j] = @ + 1]
    /\ haltArgs' = [haltArgs EXCEPT ![j] = @ \cup {<<Payload(j), thread[j]>>}]
    /\ interrupted' = [interrupted EXCEPT
                         ![j] = @ \/ (st = 0 /\ pc[j] = "run" /\ blocks[j])]

\* future_setResult(): publishes the result (and counts the publications).
future_setResult(f, st, res, wasCanceled) ==
    [set |-> f.set + 1, status |-> st, result |-> res,
     wasCanceled |-> wasCanceled]

\* ------------------------------------------------------ worker thread

\* job_run() calling future_setResult() before executor_remove().
JobRunOrder_PublishFirst == <<"publish", "remove">>

\* What job_run() does after its locked sections, in order: executor_remove(),
\* then future_setResult(); executor_run() goes on from there.
JobRunOrder == <<"remove", "publish">>

\* executor_run() calling the completion handler as soon as the job is out of
\* the list.
AfterStep_HandlerBeforePublish(p) == "after"

\* The position of a worker after step p of JobRunOrder.
AfterStep(p) ==
    IF p = JobRunOrder[1] THEN JobRunOrder[2] ELSE "after"

\* job_run() calling the run function without a look at canceled.
job_run_check_NoTest(j) ==
    /\ Alive
    /\ pc[j] = "check"
    /\ ~JobLocked(j)
    /\ thread' = [thread EXCEPT ![j] = Tid(j)]
    /\ state' = [state EXCEPT ![j] = JOB_EXECUTING]
    /\ runCalls' = [runCalls EXCEPT ![j] = @ + 1]
    /\ pc' = [pc EXCEPT ![j] = "run"]
    /\ canceledReads' = [canceledReads EXCEPT ![j].locked = @ + 1]
    /\ UNCHANGED <<isShutdown, afterCompletion, canceled, haltFn, blocks,
                   interrupted, listVars, wStatus, wResult, future,
                   handlerCalls, jobFrees, haltVars, scanVars, nextJob,
                   firstNow, earlyCancel, ret, ub, submitFrees, envVars, endVars>>

\* job_run(), first locked section: the check of canceled; if the job was not
\* canceled the thread is recorded, the job is EXECUTING and run is called.
job_run_check(j) ==
    /\ Alive
    /\ pc[j] = "check"
    /\ ~JobLocked(j)
    /\ IF ~canceled[j]
       THEN /\ thread' = [thread EXCEPT ![j] = Tid(j)]
            /\ state' = [state EXCEPT ![j] = JOB_EXECUTING]
            /\ runCalls' = [runCalls EXCEPT ![j] = @ + 1]
            /\ pc' = [pc EXCEPT ![j] = "run"]
       ELSE /\ pc' = [pc EXCEPT ![j] = JobRunOrder[1]]
            /\ UNCHANGED <<thread, state, runCalls>>
    /\ canceledReads' = [canceledReads EXCEPT ![j].locked = @ + 1]
    /\ UNCHANGED <<isShutdown, afterCompletion, canceled, haltFn, blocks,
                   interrupted, listVars, wStatus, wResult, future,
                   handlerCalls, jobFrees, haltVars, scanVars, nextJob,
                   firstNow, earlyCancel, ret, ub, submitFrees, envVars, endVars>>

\* job->run() returns its status and result; a run function that blocks
\* returns only once it was halted.
job_run_return(j) ==
    /\ Alive
    /\ pc[j] = "run"
    /\ ~blocks[j] \/ interrupted[j]
    /\ \E out \in RunOutcomes :
          /\ wStatus' = [wStatus EXCEPT ![j] = out[1]]
          /\ wResult' = [wResult EXCEPT ![j] = out[2]]
    /\ pc' = [pc EXCEPT ![j] = "ran"]
    /\ UNCHANGED <<isShutdown, afterCompletion, jobVars, listVars, future,
                   runCalls, handlerCalls, jobFrees, canceledReads, haltVars,
                   scanVars,
                   nextJob, firstNow, earlyCancel, ret, ub, submitFrees, envVars, endVars>>

\* job_run() marking the job COMPLETED only if the run function succeeded.
job_run_complete_OnlyOnSuccess(j) ==
    /\ Alive
    /\ pc[j] = "ran"
    /\ ~JobLocked(j)
    /\ state' = [state EXCEPT
                   ![j] = IF wStatus[j] = 0 THEN JOB_COMPLETED ELSE @]
    /\ pc' = [pc EXCEPT ![j] = JobRunOrder[1]]
    /\ UNCHANGED <<isShutdown, afterCompletion, canceled, thread, haltFn,
                   blocks, interrupted, listVars, wStatus, wResult, future,
                   runCalls, handlerCalls, jobFrees, canceledReads, haltVars,
                   scanVars,
                   nextJob, firstNow, earlyCancel, ret, ub, submitFrees, envVars, endVars>>

\* job_run() resetting the state to JOB_INITIALIZED after the run function.
job_run_complete_Backward(j) ==
    /\ Alive
    /\ pc[j] = "ran"
    /\ ~JobLocked(j)
    /\ state' = [state EXCEPT ![j] = JOB_INITIALIZED]
    /\ pc' = [pc EXCEPT ![j] = JobRunOrder[1]]
    /\ UNCHANGED <<isShutdown, afterCompletion, canceled, thread, haltFn,
                   blocks, interrupted, listVars, wStatus, wResult, future,
                   runCalls, handlerCalls, jobFrees, canceledReads, haltVars,
                   scanVars,
                   nextJob, firstNow, earlyCancel, ret, ub, submitFrees, envVars, endVars>>

\* job_run(), second locked section: the job is COMPLETED.
job_run_complete(j) ==
    /\ Alive
    /\ pc[j] = "ran"
    /\ ~JobLocked(j)
    /\ state' = [state EXCEPT ![j] = JOB_COMPLETED]
    /\ pc' = [pc EXCEPT ![j] = JobRunOrder[1]]
    /\ UNCHANGED <<isShutdown, afterCompletion, canceled, thread, haltFn,
                   blocks, interrupted, listVars, wStatus, wResult, future,
                   runCalls, handlerCalls, jobFrees, canceledReads, haltVars,
                   scanVars,
                   nextJob, firstNow, earlyCancel, ret, ub, submitFrees, envVars, endVars>>

\* executor_remove() not taking the executor mutex.
executor_remove_Unlocked(j) ==
    /\ Alive
    /\ pc[j] = "remove"
    /\ LET r == jobList_remove(jobList, prev, next, j)
       IN  /\ jobList' = r.jobList
           /\ prev' = r.prev
           /\ next' = r.next
    /\ pc' = [pc EXCEPT ![j] = AfterStep("remove")]
    /\ UNCHANGED <<isShutdown, afterCompletion, jobVars, wStatus, wResult,
                   future, runCalls, handlerCalls, jobFrees, canceledReads,
                   haltVars, scanVars, nextJob, firstNow, earlyCancel, ret,
                   ub, submitFrees, envVars, endVars>>

\* executor_remove(), called by job_run(): under the executor mutex.
executor_remove(j) ==
    /\ Alive
    /\ pc[j] = "remove"
    /\ mutexFree
    /\ LET r == jobList_remove(jobList, prev, next, j)
       IN  /\ jobList' = r.jobList
           /\ prev' = r.prev
           /\ next' = r.next
    /\ pc' = [pc EXCEPT ![j] = AfterStep("remove")]
    /\ UNCHANGED <<isShutdown, afterCompletion, jobVars, wStatus, wResult,
                   future, runCalls, handlerCalls, jobFrees, canceledReads,
                   haltVars, scanVars, nextJob, firstNow, earlyCancel, ret, ub, submitFrees, envVars, endVars>>

\* job_run()'s call of future_setResult(), reading canceled without the lock.
job_run_publish(j) ==
    /\ Alive
    /\ pc[j] = "publish"
    /\ future' = [future EXCEPT
                    ![j] = future_setResult(@, wStatus[j], wResult[j],
                                            canceled[j])]
    /\ wStatus' = [wStatus EXCEPT ![j] = 0]
    /\ wResult' = [wResult EXCEPT ![j] = NULL]
    /\ canceledReads' = [canceledReads EXCEPT ![j].unlocked = @ + 1]
    /\ pc' = [pc EXCEPT ![j] = AfterStep("publish")]
    /\ UNCHANGED <<isShutdown, afterCompletion, jobVars, listVars, runCalls,
                   handlerCalls, jobFrees, haltVars, scanVars, nextJob,
                   firstNow, earlyCancel, ret, ub, submitFrees, envVars, endVars>>

\* executor_run() after job_run(): the completion handler, if one is set.
executor_run_after(j) ==
    /\ Alive
    /\ pc[j] = "after"
    /\ handlerCalls' = [handlerCalls EXCEPT
                          ![j] = IF afterCompletion THEN @ + 1 ELSE @]
    /\ pc' = [pc EXCEPT ![j] = "free"]
    /\ UNCHANGED <<isShutdown, afterCompletion, jobVars, listVars, wStatus,
                   wResult, future, runCalls, jobFrees, canceledReads,
                   haltVars, scanVars,
                   nextJob, firstNow, earlyCancel, ret, ub, submitFrees, envVars, endVars>>

\* executor_run()'s job_free(job); the thread then ends.
executor_run_free(j) ==
    /\ Alive
    /\ pc[j] = "free"
    /\ jobFrees' = [jobFrees EXCEPT ![j] = @ + 1]
    /\ asserted' = (asserted \/ ~job_free_assertion(state[j]))
    /\ pc' = [pc EXCEPT ![j] = "done"]
    /\ UNCHANGED <<isShutdown, afterCompletion, jobVars, listVars, wStatus,
                   wResult, future, runCalls, handlerCalls, canceledReads,
                   haltVars, scanVars, nextJob, firstNow, earlyCancel, ret,
                   ub, submitFrees, envVars, destroyed>>

\* ------------------------------------------------------------ callers

\* executor_setAfterCompletion(): registers a completion handler.
executor_setAfterCompletion ==
    /\ Alive
    /\ ~afterCompletion
    /\ afterCompletion' = TRUE
    /\ UNCHANGED <<isShutdown, jobVars, listVars, workerVars, haltVars,
                   scanVars, nextJob, firstNow, earlyCancel, ret, ub, submitFrees, envVars, endVars>>

\* The mutexes a thread holds when it calls pthread_create() in
\* executor_submitJob(): the call is made between executor_lock() and
\* executor_unlock().
CreateLocks == {"executor"}

\* The mutexes a worker holds when it calls the completion handler in
\* executor_run(): none.
HandlerLocks == {}

\* executor_submitJob() without the test of isShutdown.
executor_submitJob_NoShutdownTest(j, createOk) ==
    LET a == jobList_add(jobList, prev, next, j)
    IN  IF createOk
        THEN [status |-> 0, created |-> TRUE,
              jobList |-> a.jobList, prev |-> a.prev, next |-> a.next]
        ELSE [status |-> EAGAIN, created |-> FALSE,
              jobList |-> jobList, prev |-> prev, next |-> next]

\* executor_submitJob() creating the thread without jobList_add().
executor_submitJob_NoAdd(j, createOk) ==
    IF isShutdown
    THEN [status |-> EPERM, created |-> FALSE,
          jobList |-> jobList, prev |-> prev, next |-> next]
    ELSE [status |-> IF createOk THEN 0 ELSE EAGAIN, created |-> createOk,
          jobList |-> jobList, prev |-> prev, next |-> next]

\* executor_submitJob() creating the thread although the executor is shut
\* down.
executor_submitJob_ThreadWhenShutdown(j, createOk) ==
    IF isShutdown
    THEN [status |-> EPERM, created |-> TRUE,
          jobList |-> jobList, prev |-> prev, next |-> next]
    ELSE LET a == jobList_add(jobList, prev, next, j)
             r == jobList_remove(a.jobList, a.prev, a.next, j)
         IN  IF createOk
             THEN [status |-> 0, created |-> TRUE,
                   jobList |-> a.jobList, prev |-> a.prev, next |-> a.next]
             ELSE [status |-> EAGAIN, created |-> FALSE,
                   jobList |-> r.jobList, prev |-> r.prev, next |-> r.next]

\* executor_submitJob() returning success without a call of pthread_create().
executor_submitJob_NoThread(j, createOk) ==
    IF isShutdown
    THEN [status |-> EPERM, created |-> FALSE,
          jobList |-> jobList, prev |-> prev, next |-> next]
    ELSE LET a == jobList_add(jobList, prev, next, j)
         IN  [status |-> 0, created |-> FALSE,
              jobList |-> a.jobList, prev |-> a.prev, next |-> a.next]

\* executor_submitJob() leaving the job in the list when pthread_create()
\* fails.
executor_submitJob_NoRemove(j, createOk) ==
    IF isShutdown
    THEN [status |-> EPERM, created |-> FALSE,
          jobList |-> jobList, prev |-> prev, next |-> next]
    ELSE LET a == jobList_add(jobList, prev, next, j)
         IN  [status |-> IF createOk THEN 0 ELSE EAGAIN, created |-> createOk,
              jobList |-> a.jobList, prev |-> a.prev, next |-> a.next]

\* executor_submitJob() on the new job j: the status it returns, the list it
\* leaves and whether a thread was created. createOk is pthread_create()'s
\* outcome.
executor_submitJob(j, createOk) ==
    IF isShutdown
    THEN [status |-> EPERM, created |-> FALSE,
          jobList |-> jobList, prev |-> prev, next |-> next]
    ELSE LET a == jobList_add(jobList, prev, next, j)
             r == jobList_remove(a.jobList, a.prev, a.next, j)
         IN  IF createOk
             THEN [status |-> 0, created |-> TRUE,
                   jobList |-> a.jobList, prev |-> a.prev, next |-> a.next]
             ELSE [status |-> EAGAIN, created |-> FALSE,
                   jobList |-> r.jobList, prev |-> r.prev, next |-> r.next]

\* The Future executor_submit() returns for job j when executor_submitJob()
\* returned status st (the Future of job j is named j).
SubmitReturn(j, st) == IF st # 0 THEN NULL ELSE j

\* executor_submit() calling job_free() whatever executor_submitJob()
\* returned.
executor_submit_cleanup_Always(st) ==
    [job |-> 1, future |-> IF st # 0 THEN 1 ELSE 0]

\* executor_submit() after executor_submitJob() returned st: the calls of
\* job_free() and future_free() it makes.
executor_submit_cleanup(st) ==
    [job |-> IF st # 0 THEN 1 ELSE 0, future |-> IF st # 0 THEN 1 ELSE 0]

\* executor_submit(): future_new(), job_new(), executor_submitJob() and, if
\* that fails, job_free() and future_free(). A job that was freed leaves
\* nothing in its slot.
executor_submit(hf, bl, createOk) ==
    /\ Alive
    /\ mutexFree
    /\ createOk => nextJob <= MaxJobs
    /\ LET j == nextJob
           s == executor_submitJob(j, createOk)
       IN  /\ jobList' = s.jobList
           /\ pc' = [pc EXCEPT ![j] = IF s.created THEN "check" ELSE @]
           /\ ret' = Return("submit", s.status)
           /\ submitFrees' = executor_submit_cleanup(s.status)
           /\ IF SubmitReturn(j, s.status) # NULL
              THEN /\ job_new(j, hf, bl)
                   /\ prev' = s.prev
                   /\ next' = s.next
                   /\ nextJob' = nextJob + 1
              ELSE /\ prev' = [s.prev EXCEPT ![j] = NULL]
                   /\ next' = [s.next EXCEPT ![j] = NULL]
                   /\ UNCHANGED <<state, canceled, haltFn, blocks, nextJob>>
    /\ UNCHANGED <<isShutdown, afterCompletion, thread, interrupted, wStatus,
                   wResult, future, runCalls, handlerCalls, jobFrees,
                   canceledReads, haltVars, scanVars, firstNow, earlyCancel,
                   ub, envVars, endVars>>

\* What executor_size() returns.
SizeReturn == jobList_size(jobList)

\* executor_size(): reads the size under the executor mutex.
executor_size ==
    /\ Alive
    /\ mutexFree
    /\ SizeReturn >= 0
    /\ UNCHANGED vars

\* job_cancel() returning success whatever the halt function returned.
job_cancel_status_Success(haltStatus) == 0

\* The status job_cancel() returns when it has called the halt function: the
\* halt function's.
job_cancel_status(haltStatus) == haltStatus

\* job_cancel() (also reached through future_cancel()) by a caller, on a job
\* that is not freed: the locked section. If the job is EXECUTING the caller
\* goes on to the halt function.
job_cancel(j) ==
    /\ Alive
    /\ Accepted(j)
    /\ ~Freed(j)
    /\ ~JobLocked(j)
    /\ cancelReqs[j] < MaxCancels
    /\ cancelReqs' = [cancelReqs EXCEPT ![j] = @ + 1]
    /\ earlyCancel' = [earlyCancel EXCEPT ![j] = @ \/ pc[j] = "check"]
    /\ LET e == job_cancel_locked(state[j], canceled[j])
       IN  /\ canceled' = [canceled EXCEPT ![j] = e.canceled]
           /\ halting' = [halting EXCEPT ![j] = IF e.halt THEN @ + 1 ELSE @]
           /\ ret' = IF e.halt THEN ret ELSE Return("cancel", e.status)
           /\ submitFrees' = IF e.halt THEN submitFrees ELSE NoFrees
    /\ UNCHANGED <<isShutdown, afterCompletion, state, thread, haltFn, blocks,
                   interrupted, listVars, workerVars, haltCalls, haltArgs,
                   kills, scanVars, nextJob, firstNow, ub, envVars, endVars>>

\* job_cancel() after job_unlock(): the call of the halt function, whose
\* status job_cancel() returns. The job's halt, obj and thread are read from
\* the job before its worker frees it (job_cancel_freed() is the other case);
\* the function itself may run after that.
job_cancel_halt(j) ==
    /\ Alive
    /\ halting[j] > 0
    /\ \E o \in HaltOutcomes(j) :
          /\ CallHalt(j, o.status)
          /\ kills' = [kills EXCEPT ![j] = @ \cup o.kill]
          /\ ret' = Return("cancel", job_cancel_status(o.status))
    /\ submitFrees' = NoFrees
    /\ halting' = [halting EXCEPT ![j] = @ - 1]
    /\ UNCHANGED <<isShutdown, afterCompletion, state, canceled, thread,
                   haltFn, blocks, listVars, workerVars, cancelReqs, scanVars,
                   nextJob, firstNow, earlyCancel, ub, envVars, endVars>>

\* job_cancel() on a job that its worker has freed (the Future's reference to
\* the job dangles), or its halt call once the job is freed: the freed job is
\* locked, read and written. What the call does then is not defined.
job_cancel_freed(j) ==
    /\ Alive
    /\ Accepted(j)
    /\ Freed(j)
    /\ halting[j] > 0 \/ cancelReqs[j] < MaxCancels
    /\ ub' = TRUE
    /\ UNCHANGED <<isShutdown, afterCompletion, jobVars, listVars, workerVars,
                   haltVars, scanVars, nextJob, firstNow, earlyCancel, ret,
                   submitFrees, envVars, endVars>>

\* ----------------------------------------------------------- shutdown

\* A later call of executor_shutdown() scans the list again if now is set.
executor_shutdown_Again(shut, now) ==
    [set |-> ~shut, cancelAll |-> now, status |-> 0]

\* executor_shutdown() calling jobList_cancelAll() whatever now is.
executor_shutdown_AlwaysCancel(shut, now) ==
    IF shut
    THEN [set |-> FALSE, cancelAll |-> FALSE, status |-> 0]
    ELSE [set |-> TRUE, cancelAll |-> TRUE, status |-> 0]

\* executor_shutdown()'s decision under the executor mutex, from isShutdown
\* and now: whether it sets the flag, whether it calls jobList_cancelAll(),
\* and the status it returns if it does not.
executor_shutdown_plan(shut, now) ==
    IF shut
    THEN [set |-> FALSE, cancelAll |-> FALSE, status |-> 0]
    ELSE [set |-> TRUE, cancelAll |-> now, status |-> 0]

\* executor_shutdown(): under the executor mutex. The first call sets
\* isShutdown and, if now, starts jobList_cancelAll() at the head of the list,
\* keeping the mutex; any later call returns 0 (its return is told from the
\* first call's by the name "shutdown again").
executor_shutdown(now) ==
    /\ Alive
    /\ mutexFree
    /\ LET plan == executor_shutdown_plan(isShutdown, now)
           name == IF isShutdown THEN "shutdown again" ELSE "shutdown"
       IN  /\ isShutdown' = (isShutdown \/ plan.set)
           /\ firstNow' = IF isShutdown THEN firstNow
                          ELSE IF now THEN "yes" ELSE "no"
           /\ IF plan.cancelAll /\ jobList.head # NULL
              THEN /\ scanPc' = "cancel"
                   /\ scanJob' = jobList.head
                   /\ scanned' = {Members[i] : i \in 1..Len(Members)}
                   /\ UNCHANGED <<scanNext, scanStatus, scanCancels, ret,
                                  submitFrees>>
              ELSE /\ ret' = Return(name, plan.status)
                   /\ submitFrees' = NoFrees
                   /\ UNCHANGED scanVars
    /\ UNCHANGED <<afterCompletion, jobVars, listVars, workerVars, haltVars,
                   nextJob, earlyCancel, ub, envVars, endVars>>

\* executor_shutdown() returning from the scan without executor_unlock().
ScanAdvance_NoUnlock(n, st) ==
    IF n = NULL
    THEN /\ scanPc' = "returned"
         /\ scanJob' = NULL
         /\ scanNext' = NULL
         /\ scanStatus' = 0
         /\ ret' = Return("shutdown", st)
         /\ submitFrees' = NoFrees
    ELSE /\ scanPc' = "cancel"
         /\ scanJob' = n
         /\ scanNext' = NULL
         /\ scanStatus' = st
         /\ ret' = ret
         /\ submitFrees' = submitFrees

\* jobList_cancelAll() leaving its loop after the first job.
ScanAdvance_FirstOnly(n, st) ==
    /\ scanPc' = "idle"
    /\ scanJob' = NULL
    /\ scanNext' = NULL
    /\ scanStatus' = 0
    /\ ret' = Return("shutdown", st)
    /\ submitFrees' = NoFrees

\* jobList_cancelAll(): job = next; when the list is exhausted
\* executor_shutdown() unlocks the executor and returns the status.
ScanAdvance(n, st) ==
    IF n = NULL
    THEN /\ scanPc' = "idle"
         /\ scanJob' = NULL
         /\ scanNext' = NULL
         /\ scanStatus' = 0
         /\ ret' = Return("shutdown", st)
         /\ submitFrees' = NoFrees
    ELSE /\ scanPc' = "cancel"
         /\ scanJob' = n
         /\ scanNext' = NULL
         /\ scanStatus' = st
         /\ ret' = ret
         /\ submitFrees' = submitFrees

\* jobList_cancelAll() keeping the status of the last cancellation that
\* failed.
jobList_cancelAll_status_Last(status, stat) ==
    IF stat # 0 THEN stat ELSE status

\* jobList_cancelAll(): its status after a cancellation that returned stat.
jobList_cancelAll_status(status, stat) ==
    IF stat # 0 /\ status = 0 THEN stat ELSE status

\* jobList_cancelAll(): next = job->next and future_cancel(job->future) up to
\* job_cancel()'s job_unlock().
jobList_cancelAll_cancel ==
    /\ Alive
    /\ scanPc = "cancel"
    /\ ~JobLocked(scanJob)
    /\ LET j == scanJob
           e == job_cancel_locked(state[j], canceled[j])
       IN  /\ scanCancels' = [scanCancels EXCEPT ![j] = @ + 1]
           /\ earlyCancel' = [earlyCancel EXCEPT ![j] = @ \/ pc[j] = "check"]
           /\ canceled' = [canceled EXCEPT ![j] = e.canceled]
           /\ IF e.halt
              THEN /\ scanPc' = "halt"
                   /\ scanNext' = next[j]
                   /\ UNCHANGED <<scanJob, scanStatus, ret, submitFrees>>
              ELSE ScanAdvance(next[j], scanStatus)
    /\ UNCHANGED <<isShutdown, afterCompletion, state, thread, haltFn, blocks,
                   interrupted, listVars, workerVars, haltVars, scanned,
                   nextJob, firstNow, ub, envVars, endVars>>

\* jobList_cancelAll(): job_cancel()'s call of the halt function and the
\* status it leaves.
jobList_cancelAll_halt ==
    /\ Alive
    /\ scanPc = "halt"
    /\ \E o \in HaltOutcomes(scanJob) :
          /\ CallHalt(scanJob, o.status)
          /\ kills' = [kills EXCEPT ![scanJob] = @ \cup o.kill]
          /\ LET stat == job_cancel_status(o.status)
             IN  ScanAdvance(scanNext,
                             jobList_cancelAll_status(scanStatus, stat))
    /\ UNCHANGED <<isShutdown, afterCompletion, state, canceled, thread,
                   haltFn, blocks, listVars, workerVars, cancelReqs, halting,
                   scanned, scanCancels, nextJob, firstNow, earlyCancel, ub,
                   envVars, endVars>>

\* ------------------------------------------------------------ the end

\* The jobs jobList_free() frees: every job of the list, or, in a process
\* that job_free()'s assertion aborts, those before the first one that is
\* EXECUTING.
RECURSIVE jobList_free(_, _)
jobList_free(members, aborts) ==
    IF members = <<>> THEN {}
    ELSE IF aborts /\ ~job_free_assertion(state[Head(members)]) THEN {}
    ELSE {Head(members)} \cup jobList_free(Tail(members), aborts)

\* executor_free(): executor_destroy() frees, under the executor mutex, the
\* jobs that are still in the list, and the executor is released. The
\* threads that are left have nothing valid to work on.
executor_free ==
    /\ Alive
    /\ mutexFree
    /\ \E aborts \in BOOLEAN :
          jobFrees' = [j \in Slots |->
                         IF j \in jobList_free(Members, aborts)
                         THEN jobFrees[j] + 1 ELSE jobFrees[j]]
    /\ asserted' = (asserted \/ \E j \in Jobs :
                                  InList(j) /\ ~job_free_assertion(state[j]))
    /\ destroyed' = TRUE
    /\ UNCHANGED <<isShutdown, afterCompletion, jobVars, listVars, pc, wStatus,
                   wResult, future, runCalls, handlerCalls, canceledReads,
                   haltVars, scanVars, nextJob, firstNow, earlyCancel, ret,
                   ub, submitFrees, envVars>>

\* ------------------------------------------------------ specification

\* executor_submit() with one of the halt functions HF, any kind of run
\* function and either outcome of pthread_create().
Submit(HF) ==
    \E hf \in HF, bl \in BOOLEAN, createOk \in BOOLEAN :
       executor_submit(hf, bl, createOk)

\* The operations other than executor_submit() and
\* executor_setAfterCompletion(), and the steps of the threads.
Operate ==
    \/ executor_size
    \/ \E now \in BOOLEAN : executor_shutdown(now)
    \/ jobList_cancelAll_cancel
    \/ jobList_cancelAll_halt
    \/ \E j \in Jobs : job_cancel(j)
    \/ \E j \in Jobs : job_cancel_halt(j)
    \/ \E j \in Jobs : job_cancel_freed(j)
    \/ \E j \in Jobs : job_run_check(j)
    \/ \E j \in Jobs : job_run_return(j)
    \/ \E j \in Jobs : job_run_complete(j)
    \/ \E j \in Jobs : executor_remove(j)
    \/ \E j \in Jobs : job_run_publish(j)
    \/ \E j \in Jobs : executor_run_after(j)
    \/ \E j \in Jobs : executor_run_free(j)

\* The executor used with the default halt function and no completion
\* handler.
Next ==
    \/ Submit({"default"})
    \/ Operate

Spec == Init /\ [][Next]_vars

\* The executor used with halt functions of the callers, which may fail.
NextHalt ==
    \/ Submit({"custom"})
    \/ Operate

SpecHalt == Init /\ [][NextHalt]_vars

\* The executor used with the default halt function in a process where
\* pthread_kill() may fail.
SpecKill == InitKill /\ [][Next]_vars

\* The executor used as in Spec and freed at any moment.
NextFree ==
    \/ executor_free
    \/ Next

SpecFree == Init /\ [][NextFree]_vars

\* The executor when a completion handler is registered, at any moment.
NextHandler ==
    \/ executor_setAfterCompletion
    \/ Next

SpecHandler == Init /\ [][NextHandler]_vars

\* The steps of the worker thread of job j.
Worker(j) ==
    \/ job_run_check(j)
    \/ job_run_return(j)
    \/ job_run_complete(j)
    \/ executor_remove(j)
    \/ job_run_publish(j)
    \/ executor_run_after(j)
    \/ executor_run_free(j)

\* A step of a thread that is inside the executor's code: a worker, a caller
\* that job_cancel() has brought to the halt function, or the caller whose
\* executor_shutdown() scans the list.
Progress ==
    \/ \E j \in Jobs : Worker(j)
    \/ \E j \in Jobs : job_cancel_halt(j)
    \/ jobList_cancelAll_cancel
    \/ jobList_cancelAll_halt

\* Fair scheduling: the threads inside the executor's code are not all held
\* up for ever while one of them can take a step. (As no thread takes more
\* than a bounded number of steps, this gives every thread its steps.)
Fairness == WF_vars(Progress)

LiveSpec == Spec /\ Fairness

\* A process where pthread_kill() fails for a thread that exists, so that the
\* default halt function fails with EINVAL while a caller's halt function
\* fails, if it does, with EIO.
InitKillFails == Constructed /\ killError = EINVAL

\* The executor with both kinds of halt function, its jobs cancelled by
\* executor_shutdown() only (no caller keeps a Future to cancel).
NextShutdown ==
    \/ Submit(HaltFuncs)
    \/ executor_size
    \/ \E now \in BOOLEAN : executor_shutdown(now)
    \/ jobList_cancelAll_cancel
    \/ jobList_cancelAll_halt
    \/ \E j \in Jobs : Worker(j)

SpecShutdown == InitKillFails /\ [][NextShutdown]_vars

\* ---------------------------------------------------------------------
\* C1: a call of executor_submit() that finds the executor shut down fails:
\* its status is EPERM, so the Future it returns is NULL; no thread is made
\* (no worker changes position) and the job list, its links, its size and
\* the number of accepted jobs are as before.
C1_SubmitAfterShutdownFails ==
    [][\A hf \in HaltFuncs, bl \in BOOLEAN, createOk \in BOOLEAN :
          (isShutdown /\ executor_submit(hf, bl, createOk))
             => /\ ret' = Return("submit", EPERM)
                /\ SubmitReturn(nextJob, ret'.status) = NULL
                /\ UNCHANGED <<pc, jobList, prev, next, nextJob>>]_vars

\* A submission was rejected while a job was in the list.
C1_Witness ==
    /\ isShutdown
    /\ ret = Return("submit", EPERM)
    /\ jobList.size > 0

\* C2: a call of executor_shutdown() that finds the executor shut down, with
\* either value of now, returns 0 and changes nothing else: no job's canceled
\* flag or state, no halt call, not the flag, the list or the scan.
C2_SecondShutdownNoOp ==
    [][\A now \in BOOLEAN :
          (isShutdown /\ executor_shutdown(now))
             => /\ ret' = Return("shutdown again", 0)
                /\ UNCHANGED <<isShutdown, afterCompletion, jobVars, listVars,
                               workerVars, haltVars, scanVars, nextJob,
                               firstNow, earlyCancel, ub, envVars, endVars>>]_vars

\* executor_shutdown(false) was followed by another call while a job that
\* nobody canceled was executing.
C2_Witness ==
    /\ firstNow = "no"
    /\ ret.op = "shutdown again"
    /\ \E j \in Jobs : state[j] = JOB_EXECUTING /\ ~canceled[j] /\ InList(j)

\* The jobs that executor_submit() added to the list and that are not yet
\* removed: their workers have not come to executor_remove()'s end.
AddedNotRemoved ==
    {j \in Jobs : Accepted(j) /\ pc[j] \in {"check", "run", "ran", "remove"}}

\* C3: a job whose worker is at, or past, future_setResult() is not in the
\* job list: executor_size() does not count it and jobList_cancelAll() does
\* not visit it.
C3_RemovedBeforePublished ==
    \A j \in Jobs :
       (future[j].set > 0 \/ pc[j] = "publish")
          => /\ ~InList(j)
             /\ j \notin AddedNotRemoved
             /\ scanJob # j /\ scanNext # j

\* A Future holds its result while another job is still in the list.
C3_Witness ==
    \E j \in Jobs : future[j].set > 0 /\ jobList.head # NULL

\* C4: what executor_size() returns is the number of jobs added and not yet
\* removed; the list holds exactly those jobs, each once, and none whose
\* Future holds a result.
C4_SizeCountsListedJobs ==
    /\ SizeReturn = Cardinality(AddedNotRemoved)
    /\ Len(Members) = SizeReturn
    /\ {Members[i] : i \in 1..Len(Members)} = AddedNotRemoved
    /\ \A j \in Jobs : future[j].set > 0 => j \notin AddedNotRemoved

\* Two jobs were accepted, one is published and removed, the other counted.
C4_Witness ==
    /\ SizeReturn = 1
    /\ nextJob = 3
    /\ \E j \in Jobs : future[j].set > 0

\* C5 (as claimed): once executor_shutdown(false) was called, every accepted
\* job ends COMPLETED with a result in its Future. Stated on the final
\* outcome: a job whose Future holds its result is COMPLETED.
C5_PublishedJobsAreCompleted ==
    \A j \in Jobs :
       (firstNow = "no" /\ future[j].set > 0) => state[j] = JOB_COMPLETED

\* C6: if job_cancel() locks the job before the worker's check of canceled,
\* it returns 0 and calls no halt function; the run function is never called
\* and the Future, once published, holds status 0, a NULL result and
\* wasCanceled.
C6_CancelBeforeCheck ==
    /\ [](\A j \in Jobs :
            earlyCancel[j]
               => /\ runCalls[j] = 0
                  /\ haltCalls[j] = 0 /\ PendingHalts(j) = 0
                  /\ future[j].set > 0
                       => future[j] = [set |-> 1, status |-> 0,
                                       result |-> NULL, wasCanceled |-> TRUE])
    /\ [][\A j \in Jobs :
            (pc[j] = "check" /\ job_cancel(j))
               => /\ ret' = Return("cancel", 0)
                  /\ UNCHANGED <<halting, haltCalls, haltArgs>>]_vars

\* A job canceled before its worker's check was published as canceled.
C6_Witness ==
    \E j \in Jobs :
       /\ earlyCancel[j]
       /\ cancelReqs[j] = 1
       /\ future[j].set = 1 /\ future[j].wasCanceled

\* C7: job_cancel() on a COMPLETED job (called by a caller or by
\* jobList_cancelAll()) returns 0, calls no halt function and leaves the
\* job's canceled flag and state and the status, result and wasCanceled of
\* its Future, published or about to be, as they are.
C7_CancelCompletedNoOp ==
    [][/\ \A j \in Jobs :
            (state[j] = JOB_COMPLETED /\ job_cancel(j))
               => /\ ret' = Return("cancel", 0)
                  /\ UNCHANGED <<jobVars, workerVars, halting, haltCalls,
                                 haltArgs>>
       /\ (scanPc = "cancel" /\ state[scanJob] = JOB_COMPLETED
             /\ jobList_cancelAll_cancel)
               => /\ scanPc' # "halt"
                  /\ UNCHANGED <<jobVars, workerVars, halting, haltCalls,
                                 haltArgs>>]_vars

\* A COMPLETED job was asked to cancel and its Future says it was not
\* canceled.
C7_Witness ==
    \E j \in Jobs :
       /\ cancelReqs[j] = 1
       /\ ret = Return("cancel", 0)
       /\ state[j] = JOB_COMPLETED /\ ~canceled[j]
       /\ future[j].set = 1 /\ ~future[j].wasCanceled

\* C8: a first executor_shutdown(true) asks each job that is in the list at
\* that moment to cancel, once, and no other job; its steps never wait for a
\* worker (while the process runs, its next step can be taken); when it has
\* returned each of those jobs is canceled or was
\* COMPLETED already.
C8_ShutdownNowCancelsEachOnce ==
    /\ \A j \in Jobs :
          /\ scanCancels[j] <= 1
          /\ scanCancels[j] = 1 => j \in scanned
    /\ (Alive /\ scanPc = "cancel") => ENABLED jobList_cancelAll_cancel
    /\ (Alive /\ scanPc = "halt") => ENABLED jobList_cancelAll_halt
    /\ (firstNow = "yes" /\ scanPc = "idle")
          => \A j \in scanned :
                /\ scanCancels[j] = 1
                /\ canceled[j] \/ state[j] = JOB_COMPLETED

\* executor_shutdown(true) has returned after asking two jobs to cancel, and
\* one of them is still in its run function.
C8_Witness ==
    /\ firstNow = "yes" /\ scanPc = "idle"
    /\ Cardinality(scanned) = 2
    /\ \A j \in scanned : scanCancels[j] = 1
    /\ \E j \in scanned : pc[j] = "run"

\* C9: the first executor_shutdown(false) sets isShutdown and returns 0; it
\* asks no job to cancel, calls no halt function and leaves the list and
\* every job and worker as they are.
C9_ShutdownFalseOnlySetsFlag ==
    [][(~isShutdown /\ executor_shutdown(FALSE))
          => /\ isShutdown'
             /\ ret' = Return("shutdown", 0)
             /\ UNCHANGED <<afterCompletion, jobVars, listVars, workerVars,
                            haltVars, scanVars, nextJob, earlyCancel,
                            ub, envVars, endVars>>]_vars

\* executor_shutdown(false) has returned and a job that nobody canceled is
\* executing.
C9_Witness ==
    /\ firstNow = "no"
    /\ ret = Return("shutdown", 0)
    /\ \E j \in Jobs : state[j] = JOB_EXECUTING /\ ~canceled[j] /\ InList(j)

\* The number of times job j was asked to cancel.
CancelRequests(j) == cancelReqs[j] + scanCancels[j]

\* C10: for a job whose run function blocks until it is halted, a
\* job_cancel() that finds it EXECUTING calls the halt function, with the
\* job's payload and the thread its worker recorded, once for that call (a
\* single request gives exactly one halt call), and the Future is then
\* published as canceled, unless a freed job is used first.
C10_HaltOnceAndCanceled ==
    /\ [](\A j \in Jobs :
            blocks[j]
               => /\ haltArgs[j] \subseteq {<<Payload(j), Tid(j)>>}
                  /\ haltCalls[j] + PendingHalts(j) <= CancelRequests(j)
                  /\ (future[j].set > 0 /\ runCalls[j] = 1
                        /\ CancelRequests(j) = 1)
                       => haltCalls[j] = 1 /\ PendingHalts(j) = 0)
    /\ \A j \in Jobs :
          (blocks[j] /\ state[j] = JOB_EXECUTING /\ canceled[j])
             ~> (ub \/ (/\ haltCalls[j] >= 1
                        /\ future[j].set = 1
                        /\ future[j].wasCanceled))

\* A blocking job was executing, was asked once to cancel, was halted once
\* with its payload and thread, and is published as canceled.
C10_Witness ==
    \E j \in Jobs :
       /\ blocks[j] /\ runCalls[j] = 1
       /\ CancelRequests(j) = 1
       /\ haltCalls[j] = 1
       /\ haltArgs[j] = {<<Payload(j), Tid(j)>>}
       /\ future[j].set = 1 /\ future[j].wasCanceled

\* C11: when pthread_create() fails in executor_submit() on an executor that
\* is not shut down, the status is pthread_create()'s, the Future returned is
\* NULL, job_free() and future_free() are each called once, no thread exists
\* for the job, and the list (head, tail, size and every link), the flag and
\* the number of accepted jobs are as before the call; a later
\* executor_submit() on the executor, still not shut down, is accepted.
C11_CreateFailureLeavesExecutorUsable ==
    /\ [][\A hf \in HaltFuncs, bl \in BOOLEAN :
             (~isShutdown /\ executor_submit(hf, bl, FALSE))
                => /\ ret' = Return("submit", EAGAIN)
                   /\ SubmitReturn(nextJob, ret'.status) = NULL
                   /\ submitFrees' = [job |-> 1, future |-> 1]
                   /\ UNCHANGED <<jobList, prev, next, isShutdown, pc,
                                  nextJob, jobFrees>>]_vars
    /\ [](( /\ ret = Return("submit", EAGAIN)
            /\ Alive /\ mutexFree /\ ~isShutdown /\ nextJob <= MaxJobs)
             => ENABLED (/\ executor_submit("default", FALSE, TRUE)
                         /\ ret' = Return("submit", 0)
                         /\ pc'[nextJob] = "check"))

\* pthread_create() failed for a submission made while a job was in the list
\* and another job can still be submitted.
C11_Witness ==
    /\ ret = Return("submit", EAGAIN)
    /\ submitFrees = [job |-> 1, future |-> 1]
    /\ jobList.size = 1 /\ jobList.head = 1
    /\ ~isShutdown /\ nextJob <= MaxJobs

\* C12: a worker that finds a completion handler registered calls it, once,
\* for its job's Future, when the job is out of the list, the Future holds
\* its result (published once) and the job is not freed; no worker reaches
\* job_free() by another way, and none calls the handler twice. This holds as
\* well for a job that was canceled before its worker's check.
C12_HandlerAfterPublishBeforeFree ==
    /\ [][\A j \in Jobs :
             /\ (afterCompletion /\ executor_run_after(j))
                   => /\ handlerCalls[j] = 0 /\ handlerCalls'[j] = 1
                      /\ future[j].set = 1
                      /\ ~InList(j) /\ j \notin AddedNotRemoved
                      /\ ~Freed(j)
             /\ (jobFrees'[j] # jobFrees[j])
                   => /\ pc[j] = "free"
                      /\ handlerCalls'[j] = handlerCalls[j]
             /\ (pc'[j] = "free" /\ pc[j] # "free") => executor_run_after(j)
          ]_vars
    /\ [](\A j \in Jobs :
            /\ handlerCalls[j] <= 1
            /\ handlerCalls[j] = 1 => pc[j] \in {"free", "done"})

\* The handler was called for a job that was canceled before its worker's
\* check and never ran, and the job is freed.
C12_Witness ==
    \E j \in Jobs :
       /\ earlyCancel[j] /\ runCalls[j] = 0
       /\ handlerCalls[j] = 1
       /\ future[j].wasCanceled
       /\ Freed(j)

\* C13: when the halt function fails, job_cancel() returns the halt function's
\* non-zero status (for a job blocked in its run function, a halt that did
\* not interrupt it is never reported as success), and the failure changes
\* neither the flag, the list, the job's state and fields nor its worker: the
\* job goes on, and a Future that is published holds what the run function
\* returned, the job being COMPLETED and out of the list.
C13_HaltFailureIsReturned ==
    /\ [][\A j \in Jobs :
             /\ (job_cancel_halt(j) /\ ret'.status # 0)
                   => /\ ret' = Return("cancel", EIO)
                      /\ haltCalls'[j] = haltCalls[j] + 1
                      /\ UNCHANGED <<isShutdown, jobVars, listVars,
                                     workerVars, nextJob>>
             /\ (job_cancel_halt(j) /\ pc[j] = "run" /\ blocks[j]
                    /\ ~interrupted'[j])
                   => ret'.status # 0
          ]_vars
    /\ [](\A j \in Jobs :
            (runCalls[j] = 1 /\ future[j].set > 0)
               => /\ future[j].set = 1
                  /\ <<future[j].status, future[j].result>> \in RunOutcomes
                  /\ state[j] = JOB_COMPLETED
                  /\ ~InList(j))

\* The halt function of the only job that was asked to cancel failed,
\* job_cancel() returned its status, and the job went on: its run function
\* returned a result, which is published.
C13_Witness ==
    \E j \in Jobs :
       /\ ret = Return("cancel", EIO)
       /\ haltFn[j] = "custom"
       /\ \A k \in Jobs : cancelReqs[k] = (IF k = j THEN 1 ELSE 0)
       /\ haltCalls[j] = 1
       /\ state[j] = JOB_COMPLETED /\ ~InList(j)
       /\ future[j].set = 1
       /\ <<future[j].status, future[j].result>> = <<0, 1>>

\* C14: a job submitted without a halt function has the default one, which
\* signals the thread the job recorded. If pthread_kill() finds no such thread
\* (ESRCH) job_cancel() returns 0, as it does when the signal is delivered;
\* any other status of pthread_kill() is what job_cancel() returns.
C14_DefaultHaltSignalsThread ==
    [][/\ \A bl \in BOOLEAN, createOk \in BOOLEAN :
            (executor_submit("default", bl, createOk) /\ nextJob' # nextJob)
               => haltFn'[nextJob] = "default"
       /\ \A j \in Jobs :
            (haltFn[j] = "default" /\ job_cancel_halt(j))
               => /\ haltArgs'[j] = haltArgs[j] \cup {<<Payload(j), Tid(j)>>}
                  /\ kills'[j] = kills[j] \cup {KillReturns(j)}
                  /\ KillReturns(j) \in {0, ESRCH}
                        => ret' = Return("cancel", 0)
                  /\ KillReturns(j) \notin {0, ESRCH}
                        => ret' = Return("cancel", KillReturns(j))
                  /\ (Freed(j) /\ pc[j] = "done") => KillReturns(j) = ESRCH
      ]_vars

\* The thread of one job had ended when it was signalled, another job's
\* thread could not be signalled, and job_cancel() returned that status.
C14_Witness ==
    \E j, k \in Jobs :
       /\ haltFn[j] = "default" /\ haltFn[k] = "default"
       /\ kills[j] = {ESRCH} /\ haltCalls[j] = 1
       /\ kills[k] = {EINVAL} /\ haltCalls[k] = 1
       /\ ret = Return("cancel", EINVAL)

\* C15 (as claimed): a worker that finds canceled set at its check marks the
\* job COMPLETED, never calls the run function, and publishes status 0, a
\* NULL result and wasCanceled.
C15_SkippedJobIsCompleted ==
    \A j \in Jobs :
       (runCalls[j] = 0 /\ pc[j] \in {"remove", "publish", "after", "free",
                                      "done"})
          => /\ state[j] = JOB_COMPLETED
             /\ future[j].set > 0
                  => future[j] = [set |-> 1, status |-> 0, result |-> NULL,
                                  wasCanceled |-> TRUE]

\* C16 (as claimed): every change of a job's state comes with a broadcast on
\* the job's condition variable.
C16_StateChangesBroadcast ==
    [][\A j \in Jobs :
          state'[j] # state[j] => broadcasts'[j] = broadcasts[j] + 1]_vars

\* C17 (as claimed): the thread that calls the halt function holds no lock:
\* the executor's mutex is not held when jobList_cancelAll(), called by
\* executor_shutdown(true), comes to the halt function, and no caller of
\* job_cancel() holds the job's mutex there.
C17_HaltCalledWithoutLocks ==
    [][/\ jobList_cancelAll_halt => mutexFree
       /\ \A j \in Jobs :
            (job_cancel_halt(j) \/ (jobList_cancelAll_halt /\ scanJob = j))
               => ~JobLocked(j)]_vars

\* C18: job_cancel() on an EXECUTING job sets canceled and leaves the job
\* lock with the halt function still to be called; the call that follows
\* passes the job's payload and recorded thread and is made with the job
\* unlocked, so that a worker whose run function has returned can lock the
\* job and mark it COMPLETED while a halt call is under way.
C18_HaltCalledWithJobUnlocked ==
    /\ [][/\ \A j \in Jobs :
               /\ (state[j] = JOB_EXECUTING /\ job_cancel(j))
                     => /\ canceled'[j]
                        /\ halting'[j] = halting[j] + 1
                        /\ UNCHANGED <<haltCalls, haltArgs>>
               /\ job_cancel_halt(j)
                     => /\ canceled[j]
                        /\ haltArgs'[j] \ haltArgs[j]
                              \subseteq {<<Payload(j), Tid(j)>>}
                        /\ haltCalls'[j] = haltCalls[j] + 1
           /\ (scanPc = "cancel" /\ state[scanJob] = JOB_EXECUTING
                 /\ jobList_cancelAll_cancel)
                   => /\ canceled'[scanJob]
                      /\ scanPc' = "halt"
                      /\ UNCHANGED <<haltCalls, haltArgs>>
          ]_vars
    /\ [](\A j \in Jobs :
            (Alive /\ PendingHalts(j) > 0)
               => /\ ~JobLocked(j)
                  /\ pc[j] = "ran" => ENABLED job_run_complete(j))

\* The worker marked the job COMPLETED while a caller of job_cancel() had
\* still to call the halt function.
C18_Witness ==
    \E j \in Jobs :
       /\ PendingHalts(j) > 0 /\ haltCalls[j] = 0
       /\ canceled[j]
       /\ state[j] = JOB_COMPLETED

\* C19 (as claimed): the worker reads canceled once only.
C19_CanceledReadOnce ==
    \A j \in Jobs :
       canceledReads[j].locked + canceledReads[j].unlocked <= 1

\* C19: the worker decides from one read of canceled, made with the job
\* locked and INITIALIZED (it reads canceled once more, unlocked, for
\* future_setResult()). A job_cancel() that locks the job first sets canceled
\* and the run function is never called; one that finds the job EXECUTING sets
\* canceled and brings a halt call; one that finds it COMPLETED changes
\* nothing. The run function is called at most once, and no request is lost:
\* a job that ran and is canceled has a halt call made or under way, and what
\* is published as wasCanceled is the canceled flag.
C19_CancelOrderedByJobLock ==
    /\ [][\A j \in Jobs :
             /\ (canceledReads'[j].locked # canceledReads[j].locked)
                   => /\ job_run_check(j)
                      /\ state[j] = JOB_INITIALIZED
                      /\ canceledReads[j].locked = 0
             /\ (canceledReads'[j].unlocked # canceledReads[j].unlocked)
                   => /\ job_run_publish(j)
                      /\ canceledReads[j] = [locked |-> 1, unlocked |-> 0]
                      /\ future'[j].wasCanceled = canceled[j]
             /\ (job_run_check(j) /\ canceled[j])
                   => UNCHANGED <<runCalls, state, thread>>
             /\ (job_run_check(j) /\ ~canceled[j])
                   => runCalls'[j] = 1 /\ state'[j] = JOB_EXECUTING
             /\ (job_cancel(j) /\ state[j] = JOB_INITIALIZED)
                   => canceled'[j] /\ UNCHANGED <<halting, haltCalls>>
             /\ (job_cancel(j) /\ state[j] = JOB_EXECUTING)
                   => canceled'[j] /\ halting'[j] = halting[j] + 1
             /\ (job_cancel(j) /\ state[j] = JOB_COMPLETED)
                   => UNCHANGED <<canceled, halting, haltCalls>>
          ]_vars
    /\ [](\A j \in Jobs :
            /\ runCalls[j] <= 1
            /\ earlyCancel[j] => canceled[j] /\ runCalls[j] = 0
            /\ (canceled[j] /\ runCalls[j] = 1)
                  => haltCalls[j] + PendingHalts(j) >= 1
            /\ (~canceled[j] /\ CancelRequests(j) > 0)
                  => state[j] = JOB_COMPLETED)

\* One job was canceled before its worker's check and did not run; the other
\* was canceled while EXECUTING, was halted, and is published as canceled
\* after the worker's second read of canceled.
C19_Witness ==
    \E j, k \in Jobs :
       /\ earlyCancel[j] /\ runCalls[j] = 0 /\ pc[j] = "done"
       /\ runCalls[k] = 1 /\ canceled[k] /\ haltCalls[k] = 1
       /\ canceledReads[k] = [locked |-> 1, unlocked |-> 1]
       /\ future[k].set = 1 /\ future[k].wasCanceled

\* C20 (as claimed): a future_cancel() called once the worker has freed the
\* job does nothing: it does not lock, read or write the freed job and calls
\* no halt function.
C20_CancelAfterFreeIsNoOp ==
    [][\A j \in Jobs :
          (Freed(j) /\ halting[j] = 0 /\ job_cancel_freed(j))
             => /\ ~ub'
                /\ UNCHANGED <<jobVars, haltVars>>]_vars

\* C21 (as claimed): the thread that calls executor_submit() does not hold
\* the executor's mutex when the worker thread of the job is created.
C21_ThreadCreatedUnlocked ==
    [][\A hf \in HaltFuncs, bl \in BOOLEAN :
          (executor_submit(hf, bl, TRUE) /\ pc'[nextJob] = "check")
             => "executor" \notin CreateLocks]_vars

\* C22 (as claimed): a worker calls the completion handler with the
\* executor's mutex held, so that no call of the handler is made while
\* another thread has the mutex (executor_shutdown(true) scanning the list).
C22_HandlerCalledUnderMutex ==
    [][\A j \in Jobs :
          (afterCompletion /\ executor_run_after(j))
             => /\ "executor" \in HandlerLocks
                /\ mutexFree]_vars

\* C23: the list (head, tail, size, links) and the flag change only in
\* executor_submit(), executor_remove() and executor_shutdown(), each taking
\* the executor's mutex, which no other thread holds then; executor_size()
\* and executor_free() read the list only when they can take the mutex; the
\* steps of jobList_cancelAll(), which read the list, are made by the thread
\* that holds the mutex and change nothing of the list.
C23_ListAccessUnderMutex ==
    /\ [][/\ (listVars' # listVars \/ isShutdown' # isShutdown)
               => /\ mutexFree
                  /\ \/ Submit(HaltFuncs)
                     \/ \E j \in Jobs : executor_remove(j)
                     \/ \E now \in BOOLEAN : executor_shutdown(now)
          /\ (jobList_cancelAll_cancel \/ jobList_cancelAll_halt)
               => /\ ~mutexFree
                  /\ UNCHANGED <<listVars, isShutdown>>
          /\ executor_free => mutexFree
         ]_vars
    /\ [](~mutexFree
            => /\ ~ENABLED Submit(HaltFuncs)
               /\ ~ENABLED executor_size
               /\ ~ENABLED executor_free
               /\ \A j \in Jobs : ~ENABLED executor_remove(j)
               /\ \A now \in BOOLEAN : ~ENABLED executor_shutdown(now))

\* While executor_shutdown(true) holds the mutex between two steps of its
\* scan, a worker is at executor_remove() and has to wait.
C23_Witness ==
    /\ scanPc = "halt"
    /\ \E j \in Jobs : pc[j] = "remove" /\ InList(j)
    /\ jobList.size = 2

\* C24: while jobList_cancelAll() scans the list for executor_shutdown(true)
\* no job is removed from the list and no job of the list is freed (the
\* workers that have come to executor_remove() wait for the mutex); the job
\* the scan is at is in the list, neither removed nor freed, when it is asked
\* to cancel, and the next pointer the scan saved is the job's successor in
\* the list, still a member.
C24_ScanSeesLiveMembers ==
    /\ [][scanPc # "idle"
             => /\ UNCHANGED listVars
                /\ \A j \in Jobs : InList(j) => jobFrees'[j] = 0]_vars
    /\ [](scanPc # "idle"
            => /\ InList(scanJob) /\ ~Freed(scanJob)
               /\ pc[scanJob] \in {"check", "run", "ran", "remove"}
               /\ \A j \in Jobs : Alive => ~ENABLED executor_remove(j)
               /\ scanPc = "halt"
                    => /\ scanNext = next[scanJob]
                       /\ scanNext # NULL
                             => InList(scanNext) /\ ~Freed(scanNext))

\* The scan has asked the first of two jobs to cancel and is at its halt
\* call; the workers of both jobs are ready to remove them and wait.
C24_Witness ==
    /\ scanPc = "halt"
    /\ scanNext # NULL
    /\ pc[scanJob] = "remove" /\ pc[scanNext] = "remove"

\* C25: whatever the interleaving of the worker with job_cancel() calls and
\* shutdowns, the state of a job changes only from INITIALIZED to EXECUTING
\* (job_run()'s first locked section, on a job that is not canceled), from
\* EXECUTING to COMPLETED (its second locked section) or from INITIALIZED to
\* COMPLETED on a job that was canceled while INITIALIZED; it never moves
\* backward and a COMPLETED job stays COMPLETED.
C25_StateMovesForward ==
    [][\A j \in Jobs :
          state'[j] # state[j]
            => \/ /\ state[j] = JOB_INITIALIZED /\ state'[j] = JOB_EXECUTING
                  /\ ~canceled[j]
                  /\ job_run_check(j)
               \/ /\ state[j] = JOB_EXECUTING /\ state'[j] = JOB_COMPLETED
                  /\ job_run_complete(j)
               \/ /\ state[j] = JOB_INITIALIZED /\ state'[j] = JOB_COMPLETED
                  /\ canceled[j]]_vars

\* A job that was asked to cancel by job_cancel() and by a shutdown while it
\* was EXECUTING is COMPLETED.
C25_Witness ==
    \E j \in Jobs :
        /\ state[j] = JOB_COMPLETED
        /\ canceled[j]
        /\ cancelReqs[j] = 1 /\ scanCancels[j] = 1
        /\ haltCalls[j] = 2

\* C26: a job has a worker thread if and only if executor_submit() accepted
\* it, and the thread is created once, by the submission; the run function
\* is called at most once, by that thread (which records itself in the job);
\* only that thread's executor_remove() takes the job out of the list and
\* only that thread's call of future_setResult() changes the job's Future.
C26_OneWorkerPerJob ==
    /\ [](\A j \in Jobs :
            /\ Accepted(j) <=> pc[j] # "unborn"
            /\ runCalls[j] <= 1
            /\ thread[j] \in {NULL, Tid(j)}
            /\ runCalls[j] = 1 => thread[j] = Tid(j))
    /\ [][\A j \in Jobs :
            /\ pc[j] # "unborn" => pc'[j] # "unborn"
            /\ (pc[j] = "unborn" /\ pc'[j] # "unborn")
                 => /\ Submit(HaltFuncs)
                    /\ j = nextJob
                    /\ pc'[j] = "check"
            /\ runCalls'[j] # runCalls[j] => job_run_check(j)
            /\ (InList(j) /\ ~InList(j)') => executor_remove(j)
            /\ future'[j] # future[j] => job_run_publish(j)]_vars

\* Two workers have ended: one ran its job, the other found its job canceled
\* and skipped the run function; both removed and published.
C26_Witness ==
    \E j, k \in Jobs :
        /\ pc[j] = "done" /\ pc[k] = "done"
        /\ runCalls[j] = 1 /\ runCalls[k] = 0
        /\ future[j].set = 1 /\ future[k].set = 1
        /\ jobList.size = 0

\* C27: future_setResult() is called once for every job executor_submit()
\* accepted: never twice, not before the worker has removed the job, and it
\* has been called once when the worker goes on to the completion handler;
\* a worker whose run function returns (at once, or because it was halted)
\* does come to call it, whatever cancellations and shutdowns interleave. A
\* submission that is rejected, or whose thread could not be created, leaves
\* no worker and its Future is never published.
C27_PublishedExactlyOnce ==
    /\ [](\A j \in Slots :
            /\ future[j].set <= 1
            /\ pc[j] \in {"unborn", "check", "run", "ran", "remove", "publish"}
                 => future[j].set = 0
            /\ pc[j] \in {"after", "free", "done"} => future[j].set = 1
            /\ ~Accepted(j) => pc[j] = "unborn")
    /\ [][\A hf \in HaltFuncs, bl \in BOOLEAN, createOk \in BOOLEAN :
            (executor_submit(hf, bl, createOk) /\ ret'.status # 0)
               => UNCHANGED <<pc, future, nextJob>>]_vars
    /\ \A j \in Jobs :
          (Accepted(j) /\ (~blocks[j] \/ interrupted[j] \/ canceled[j]))
             ~> (ub \/ future[j].set = 1)

\* Both kinds of failed submission have happened (pthread_create() failed,
\* then the executor was shut down and a submission rejected), and the job
\* that was accepted before them, canceled twice, is published once.
C27_Witness ==
    /\ ret = Return("submit", EPERM)
    /\ \E j \in Jobs :
          /\ future[j].set = 1
          /\ CancelRequests(j) = 2
          /\ pc[j] = "done"
    /\ \E k \in Jobs : ~Accepted(k) /\ future[k].set = 0

\* C28: a job executor_submit() made is freed once, never twice: by
\* executor_submit() itself when the submission fails (the job then has no
\* worker), else by executor_run() of its worker, after executor_remove(),
\* future_setResult() and the completion-handler step, so never while the
\* job is in the list. job_free() leaves the Future as it is, and the
\* executor calls future_free() only in a failed executor_submit().
C28_JobFreedExactlyOnce ==
    /\ [](\A j \in Slots :
            /\ jobFrees[j] <= 1
            /\ Freed(j) => /\ ~InList(j)
                            /\ pc[j] = "done"
                            /\ future[j].set = 1
            /\ pc[j] = "done" => jobFrees[j] = 1)
    /\ [](/\ submitFrees.job = submitFrees.future
          /\ submitFrees.future = 1 <=> (ret.op = "submit" /\ ret.status # 0))
    /\ [][/\ \A j \in Slots :
               /\ jobFrees'[j] # jobFrees[j]
                    => /\ executor_run_free(j)
                       /\ jobFrees'[j] = jobFrees[j] + 1
                       /\ UNCHANGED future
               /\ (pc[j] # "free" /\ pc'[j] = "free") => executor_run_after(j)
          /\ \A hf \in HaltFuncs, bl \in BOOLEAN, createOk \in BOOLEAN :
               executor_submit(hf, bl, createOk)
                 => IF ret'.status # 0
                    THEN /\ submitFrees' = [job |-> 1, future |-> 1]
                         /\ UNCHANGED <<pc, jobFrees, nextJob, future>>
                    ELSE /\ submitFrees' = NoFrees
                         /\ pc'[nextJob] = "check"
                         /\ jobFrees'[nextJob] = 0]_vars

\* One job was freed by its worker; then, the executor shut down, a
\* submission was rejected and its job and Future freed by executor_submit().
C28_Witness ==
    /\ ret = Return("submit", EPERM)
    /\ submitFrees = [job |-> 1, future |-> 1]
    /\ \E j \in Jobs : jobFrees[j] = 1 /\ canceled[j]

\* C29: a job is in the executor's list from its acceptance by
\* executor_submit() until its worker removes it: while the worker has not
\* come to executor_remove(), and so in every state where the job is
\* EXECUTING, the job is a member; the job leaves the list only by its
\* worker's executor_remove(), once the run function has returned (the job
\* is COMPLETED) or was skipped (the job is canceled and INITIALIZED), and
\* its result is published only after that.
C29_MemberUntilRunReturns ==
    /\ [](\A j \in Jobs :
            /\ pc[j] \in {"check", "run", "ran", "remove"} => InList(j)
            /\ state[j] = JOB_EXECUTING => InList(j) /\ pc[j] \in {"run", "ran"}
            /\ future[j].set > 0 => ~InList(j)
            /\ InList(j) => Accepted(j))
    /\ [][/\ \A j \in Jobs :
               /\ (InList(j) /\ ~InList(j)')
                    => /\ executor_remove(j)
                       /\ \/ state[j] = JOB_COMPLETED /\ runCalls[j] = 1
                          \/ /\ state[j] = JOB_INITIALIZED /\ canceled[j]
                             /\ runCalls[j] = 0
                       /\ future[j].set = 0
                       /\ pc'[j] = "publish"
               /\ (~InList(j) /\ InList(j)')
                    => /\ Submit(HaltFuncs)
                       /\ j = nextJob /\ Accepted(j)'
          /\ \A hf \in HaltFuncs, bl \in BOOLEAN :
               (executor_submit(hf, bl, TRUE) /\ ret'.status = 0)
                 => \E j \in Jobs : j = nextJob /\ InList(j)']_vars

\* Two jobs are in the list, one EXECUTING, the other canceled before it
\* ran and about to be removed by its worker.
C29_Witness ==
    \E j, k \in Jobs :
        /\ state[j] = JOB_EXECUTING /\ InList(j)
        /\ pc[k] = "remove" /\ canceled[k] /\ runCalls[k] = 0 /\ InList(k)

\* C30: the canceled flag of a job only goes from false to true, so it
\* changes at most once: a flag that is true stays true whatever job_cancel()
\* calls, shutdowns and worker steps follow; it becomes true only in the
\* locked section of a job_cancel() (a caller's or the shutdown scan's) that
\* finds the job not COMPLETED, and a job is new with the flag false.
C30_CanceledMonotonic ==
    /\ [][\A j \in Slots :
            /\ canceled[j] => canceled'[j]
            /\ (~canceled[j] /\ canceled'[j])
                 => /\ state[j] # JOB_COMPLETED
                    /\ job_cancel(j) \/ (jobList_cancelAll_cancel /\ scanJob = j)
            /\ (pc[j] = "unborn" /\ pc'[j] # "unborn") => ~canceled'[j]]_vars
    /\ [](\A j \in Slots : ~Accepted(j) => ~canceled[j])

\* A job that is EXECUTING has been asked to cancel twice, by job_cancel()
\* and by the shutdown scan; both found it EXECUTING and called halt.
C30_Witness ==
    \E j \in Jobs :
        /\ canceled[j]
        /\ state[j] = JOB_EXECUTING /\ pc[j] = "run"
        /\ cancelReqs[j] = 1 /\ scanCancels[j] = 1
        /\ haltCalls[j] = 2

\* The worker of job j has called the run function and it has returned; the
\* result is not yet published.
RunReturned(j) == runCalls[j] = 1 /\ pc[j] \in {"ran", "remove", "publish"}

\* After the run function returned, the worker makes the job COMPLETED
\* whatever the status, keeps the status and result the run function gave
\* and publishes exactly those.
PublishesWhatRunReturned ==
    \A j \in Jobs :
       /\ job_run_return(j)
            => <<wStatus'[j], wResult'[j]>> \in RunOutcomes
       /\ job_run_complete(j) => state'[j] = JOB_COMPLETED
       /\ RunReturned(j)
            => IF job_run_publish(j)
               THEN /\ future'[j].set = 1
                    /\ future'[j].status = wStatus[j]
                    /\ future'[j].result = wResult[j]
                    /\ state[j] = JOB_COMPLETED
               ELSE wStatus'[j] = wStatus[j] /\ wResult'[j] = wResult[j]

\* C31 (as stated): a job that is not canceled when its run function returns
\* is made COMPLETED whatever the status, and is published with the status
\* and result of the run function and with wasCanceled false.
C31_NotCanceledAtReturn ==
    [][/\ PublishesWhatRunReturned
       /\ \A j \in Jobs :
            (RunReturned(j) /\ ~canceled[j])
               => /\ ~canceled'[j]
                  /\ job_run_publish(j) => ~future'[j].wasCanceled]_vars

\* C31 (amended): the job is made COMPLETED whatever the status and is
\* published with the status and result of the run function; if it is not
\* canceled when the worker has made it COMPLETED (job_cancel() may still
\* set canceled between the return of the run function and that locked
\* section), it is published with wasCanceled false.
C31_NotCanceledAtCompletion ==
    [][/\ PublishesWhatRunReturned
       /\ \A j \in Jobs :
            (RunReturned(j) /\ state[j] = JOB_COMPLETED /\ ~canceled[j])
               => /\ ~canceled'[j]
                  /\ job_run_publish(j) => ~future'[j].wasCanceled]_vars

\* A run function returned a failure; the job, never canceled although
\* job_cancel() was called on it once COMPLETED, is COMPLETED and published
\* with that failure and wasCanceled false.
C31_Witness ==
    \E j \in Jobs :
       /\ future[j] = [set |-> 1, status |-> EIO, result |-> NULL,
                       wasCanceled |-> FALSE]
       /\ state[j] = JOB_COMPLETED
       /\ cancelReqs[j] = 1
       /\ ~canceled[j]

\* ------------------------------------------------- the job list on its own

\* The jobs of a list taken on its own: jobList_add() and jobList_remove()
\* called in any order on distinct jobs, each added once and, once added,
\* removed at most once.
ListJobs == 1..MaxListJobs

\* jobList_new() has returned; the jobs are as job_new() makes them.
InitList ==
    /\ isShutdown = FALSE
    /\ afterCompletion = FALSE
    /\ jobList = [head |-> NULL, tail |-> NULL, size |-> 0]
    /\ prev = [j \in ListJobs |-> NULL]
    /\ next = [j \in ListJobs |-> NULL]
    /\ state = [j \in Slots |-> JOB_INITIALIZED]
    /\ canceled = [j \in Slots |-> FALSE]
    /\ thread = [j \in Slots |-> NULL]
    /\ haltFn = [j \in Slots |-> "default"]
    /\ blocks = [j \in Slots |-> FALSE]
    /\ interrupted = [j \in Slots |-> FALSE]
    /\ nextJob = 1
    /\ pc = [j \in Slots |-> "unborn"]
    /\ wStatus = [j \in Slots |-> 0]
    /\ wResult = [j \in Slots |-> NULL]
    /\ future = [j \in Slots |-> NoFuture]
    /\ cancelReqs = [j \in Slots |-> 0]
    /\ halting = [j \in Slots |-> 0]
    /\ haltCalls = [j \in Slots |-> 0]
    /\ haltArgs = [j \in Slots |-> {}]
    /\ kills = [j \in Slots |-> {}]
    /\ runCalls = [j \in Slots |-> 0]
    /\ handlerCalls = [j \in Slots |-> 0]
    /\ jobFrees = [j \in Slots |-> 0]
    /\ scanPc = "idle"
    /\ scanJob = NULL
    /\ scanNext = NULL
    /\ scanStatus = 0
    /\ scanned = {}
    /\ scanCancels = [j \in Slots |-> 0]
    /\ firstNow = "none"
    /\ earlyCancel = [j \in Slots |-> FALSE]
    /\ ret = Return("none", 0)
    /\ ub = FALSE
    /\ submitFrees = NoFrees
    /\ canceledReads = [j \in Slots |-> [locked |-> 0, unlocked |-> 0]]
    /\ broadcasts = [j \in Slots |-> 0]
    /\ killError = 0
    /\ listCalls = [added |-> <<>>, removed |-> {}]
    /\ destroyed = FALSE
    /\ asserted = FALSE

\* What a call on the list leaves alone.
notListVars ==
    <<isShutdown, afterCompletion, jobVars, workerVars, haltVars, scanVars,
      nextJob, firstNow, earlyCancel, ret, ub, submitFrees, broadcasts,
      killError, endVars>>

\* The jobs that were added, in the order of the calls.
AddedJobs == {listCalls.added[i] : i \in 1..Len(listCalls.added)}

\* jobList_add(jobList, job) on a job that was not added before.
ListAdd(job) ==
    /\ job \notin AddedJobs
    /\ LET a == jobList_add(jobList, prev, next, job)
       IN  /\ jobList' = a.jobList
           /\ prev' = a.prev
           /\ next' = a.next
    /\ listCalls' = [listCalls EXCEPT !.added = Append(@, job)]
    /\ UNCHANGED notListVars

\* jobList_remove(jobList, job) on a job that was added and not yet removed.
ListRemove(job) ==
    /\ job \in AddedJobs
    /\ job \notin listCalls.removed
    /\ LET r == jobList_remove(jobList, prev, next, job)
       IN  /\ jobList' = r.jobList
           /\ prev' = r.prev
           /\ next' = r.next
    /\ listCalls' = [listCalls EXCEPT !.removed = @ \cup {job}]
    /\ UNCHANGED notListVars

NextList ==
    \/ \E job \in ListJobs : ListAdd(job)
    \/ \E job \in ListJobs : ListRemove(job)

SpecList == InitList /\ [][NextList]_vars

\* The jobs reached from the head of the list through next.
ListChain == Chain(next, jobList.head, MaxListJobs + 1)

\* The jobs that were added and not removed, in the order they were added.
ListExpected ==
    SelectSeq(listCalls.added, LAMBDA job : job \notin listCalls.removed)

\* C32: after any sequence of jobList_add() and jobList_remove() calls on
\* distinct jobs (each added once and removed at most once) the chain from
\* head through next is the jobs added and not removed, in the order they
\* were added; tail is the last of them; prev is the inverse of next along
\* the chain (NULL before the first, and next is NULL after the last); head
\* is NULL exactly when the list is empty; size is the length of the chain.
C32_ListWellFormed ==
    /\ ListChain = ListExpected
    /\ jobList.tail = IF ListExpected = <<>> THEN NULL
                      ELSE ListExpected[Len(ListExpected)]
    /\ jobList.head = NULL <=> ListExpected = <<>>
    /\ jobList_size(jobList) = Len(ListChain)
    /\ \A i \in 1..Len(ListChain) :
          /\ prev[ListChain[i]] = IF i = 1 THEN NULL ELSE ListChain[i - 1]
          /\ next[ListChain[i]] = IF i = Len(ListChain) THEN NULL
                                  ELSE ListChain[i + 1]

\* Four jobs were added, not in the order of their names; the second and
\* the last of them were removed (one from the middle, one at the tail).
C32_Witness ==
    /\ Len(listCalls.added) = 4
    /\ listCalls.added[1] > listCalls.added[2]
    /\ listCalls.removed = {listCalls.added[2], listCalls.added[4]}
    /\ jobList.size = 2

\* A thread inside the executor's code is at a lock request: a worker at
\* job_lock() (before its check, after the run function) or at
\* executor_lock() in executor_remove(), or the shutdown scan, which holds
\* the executor mutex, at job_cancel()'s job_lock().
LockWaiters ==
    \/ \E j \in Jobs : pc[j] \in {"check", "ran", "remove"}
    \/ scanPc = "cancel"

\* C33: with the default halt function, which does not block, no
\* interleaving of executor_submit(), executor_size(), executor_shutdown(),
\* job_cancel() calls and workers deadlocks. The shutdown scan takes job
\* mutexes while it holds the executor mutex, but no job mutex is held by a
\* thread from one step to the next, so none is held by a thread that waits
\* for the executor mutex; while a thread is at a lock request some thread
\* can take a step, a job the scan wants to lock is free, and under fair
\* scheduling the lock requests are all granted again and again.
C33_NoDeadlock ==
    /\ [](\A j \in Jobs : ~JobLocked(j))
    /\ [](Alive /\ LockWaiters => ENABLED Progress)
    /\ [](Alive /\ scanPc = "cancel" => ENABLED jobList_cancelAll_cancel)
    /\ [](Alive /\ mutexFree
            => \A j \in Jobs : pc[j] = "remove" => ENABLED executor_remove(j))
    /\ []<>(ub \/ ~LockWaiters)
    /\ []<>(ub \/ mutexFree)

\* The scan holds the executor mutex and is about to lock its second job; the
\* worker of the first waits for the executor mutex in executor_remove(), and
\* a caller of job_cancel() on the second job is between job_unlock() and
\* its halt call.
C33_Witness ==
    /\ scanPc = "cancel"
    /\ scanCancels[scanJob] = 0
    /\ halting[scanJob] = 1
    /\ \E j \in Jobs : j # scanJob /\ pc[j] = "remove" /\ scanCancels[j] = 1

\* C34: whenever the halt function of a job is called (by a caller of
\* job_cancel() or by the shutdown scan), the run function of the job is
\* active: the worker has entered it and it has not returned, so the job is
\* EXECUTING, in the list and not freed.
C34_HaltOnlyWhileRunning ==
    [][\A j \in Jobs :
          (job_cancel_halt(j) \/ (jobList_cancelAll_halt /\ scanJob = j))
             => /\ pc[j] = "run"
                /\ state[j] = JOB_EXECUTING
                /\ InList(j)
                /\ ~Freed(j)]_vars

\* The worker of job j has not finished its last locked section in
\* job_run(): the check that finds the job canceled, or the section that
\* makes the job COMPLETED.
BeforeLastUnlock(j) == pc[j] \in {"check", "run", "ran"}

\* job_cancel() takes the lock of job j in this step, for a caller or for the
\* shutdown scan.
CancelLocks(j) ==
    job_cancel(j) \/ (jobList_cancelAll_cancel /\ scanJob = j)

\* C35: the wasCanceled published to a job's Future is true exactly when a
\* job_cancel() took the job lock before the worker finished its last locked
\* section in job_run(): such a call finds the job INITIALIZED or EXECUTING
\* and sets canceled, which stays set; once the worker has released the job
\* lock for the last time no call changes canceled, so the value read
\* without the lock for future_setResult() is the one the flag had then and
\* has ever after.
C35_WasCanceledDeterminate ==
    /\ [][\A j \in Jobs :
            /\ (CancelLocks(j) /\ BeforeLastUnlock(j))
                 => /\ state[j] \in {JOB_INITIALIZED, JOB_EXECUTING}
                    /\ canceled'[j]
            /\ canceled'[j] # canceled[j]
                 => /\ CancelLocks(j) /\ BeforeLastUnlock(j)
                    /\ canceled'[j]
            /\ job_run_publish(j)
                 => future'[j].wasCanceled = canceled[j]]_vars
    /\ [](\A j \in Jobs :
            future[j].set > 0 => future[j].wasCanceled = canceled[j])

\* One job was canceled while EXECUTING and is published as canceled; the
\* other was asked to cancel only after its worker's last locked section and
\* is published as not canceled.
C35_Witness ==
    \E j, k \in Jobs :
       /\ future[j].set = 1 /\ future[j].wasCanceled /\ runCalls[j] = 1
       /\ future[k].set = 1 /\ ~future[k].wasCanceled
       /\ CancelRequests(k) = 2

\* C36: jobList_cancelAll() goes on to the next job of the list whatever the
\* cancellation of a job returned, so that it asks every job that was in the
\* list to cancel; its status is 0 until a cancellation fails and from then
\* on the status of that first failure, whatever later cancellations return;
\* executor_shutdown(true) returns it. The flag is set by the call even if
\* that status is not 0: a following executor_shutdown() returns 0 and a
\* following executor_submit() is rejected.
C36_FirstFailureReturned ==
    /\ [][/\ jobList_cancelAll_halt
             => /\ IF scanNext = NULL
                   THEN /\ scanPc' = "idle"
                        /\ ret'.op = "shutdown"
                        /\ scanStatus # 0 => ret'.status = scanStatus
                        /\ \A j \in scanned : scanCancels'[j] = 1
                   ELSE /\ scanPc' = "cancel" /\ scanJob' = scanNext
                        /\ scanStatus # 0 => scanStatus' = scanStatus
                /\ haltFn[scanJob] = "default"
                     => LET stat == job_defaultHaltFunc(KillReturns(scanJob))
                            st == IF scanStatus # 0 THEN scanStatus ELSE stat
                        IN  IF scanNext = NULL
                            THEN ret'.status = st
                            ELSE scanStatus' = st
          /\ jobList_cancelAll_cancel
             => /\ scanCancels'[scanJob] = scanCancels[scanJob] + 1
                /\ scanPc' = "cancel" => /\ scanJob' = next[scanJob]
                                         /\ scanStatus' = scanStatus
                /\ scanPc' = "idle" => /\ next[scanJob] = NULL
                                       /\ ret' = Return("shutdown", scanStatus)
                                       /\ \A j \in scanned : scanCancels'[j] = 1
          /\ \A now \in BOOLEAN :
               executor_shutdown(now)
                 => /\ isShutdown'
                    /\ isShutdown => /\ ret' = Return("shutdown again", 0)
                                     /\ UNCHANGED scanVars
                    /\ scanPc' # "idle" => scanStatus' = 0
          /\ \A hf \in HaltFuncs, bl \in BOOLEAN, createOk \in BOOLEAN :
               (isShutdown /\ executor_submit(hf, bl, createOk))
                 => ret' = Return("submit", EPERM)]_vars
    /\ [](scanPc # "idle" \/ (ret.op = "shutdown" /\ ret.status # 0)
            => isShutdown)

\* executor_shutdown(true) found two jobs EXECUTING: the halt function of the
\* first, a caller's, failed with EIO; the second was asked to cancel all the
\* same and its default halt function failed with EINVAL; the call returned
\* EIO.
C36_Witness ==
    /\ ret = Return("shutdown", EIO)
    /\ isShutdown
    /\ haltFn[1] = "custom" /\ haltFn[2] = "default"
    /\ scanCancels[1] = 1 /\ scanCancels[2] = 1
    /\ haltCalls[1] = 1 /\ haltCalls[2] = 1
    /\ kills[2] = {EINVAL}

\* C37: the shutdown flag only goes from false to true, and while it is true
\* the job list gains no member: no step makes a job a member, so
\* executor_size() does not grow from one state to the next.
C37_ShutdownIsFinal ==
    [][/\ isShutdown => isShutdown'
       /\ isShutdown
            => /\ jobList_size(jobList') <= jobList_size(jobList)
               /\ \A j \in Slots : InList(j)' => InList(j)
               /\ nextJob' = nextJob
       /\ isShutdown' # isShutdown
            => \E now \in BOOLEAN : executor_shutdown(now)]_vars

\* The executor is shut down, executor_shutdown() was called again, and of
\* the two jobs that were accepted one is still in the list while the worker
\* of the other has ended.
C37_Witness ==
    /\ isShutdown
    /\ ret = Return("shutdown again", 0)
    /\ jobList.size = 1
    /\ nextJob = MaxJobs + 1
    /\ \E j \in Jobs : pc[j] = "done"

\* C38: job_free()'s assertion (the job is not EXECUTING) holds at the call
\* a worker makes at the end of executor_run() and at the call
\* executor_submit() makes when the submission failed, whatever job_cancel()
\* calls interleave; it is found false only by executor_free() called while a
\* job of the list is EXECUTING.
C38_FreeAssertion ==
    /\ [][/\ \A j \in Jobs :
               executor_run_free(j)
                 => /\ job_free_assertion(state[j])
                    /\ \/ state[j] = JOB_COMPLETED
                       \/ state[j] = JOB_INITIALIZED /\ canceled[j]
                    /\ asserted' = asserted
          /\ (Submit(HaltFuncs) /\ ret'.status # 0)
               => /\ submitFrees'.job = 1
                  /\ job_free_assertion(state'[nextJob])
                  /\ asserted' = asserted
          /\ asserted' # asserted
               => /\ executor_free
                  /\ \E j \in Jobs : InList(j) /\ state[j] = JOB_EXECUTING]_vars
    /\ [](asserted => destroyed)

\* A worker has freed its job, canceled while EXECUTING; then executor_free()
\* was called while the other job was EXECUTING and the assertion failed.
C38_Witness ==
    /\ asserted /\ destroyed
    /\ \E j, k \in Jobs :
          /\ pc[j] = "done" /\ jobFrees[j] = 1 /\ canceled[j]
          /\ runCalls[j] = 1
          /\ state[k] = JOB_EXECUTING /\ InList(k)

====
